---- MODULE Spec2Model ----
(***************************************************************************)
(* Model of calculadora_de_software.py: the upload normalizer              *)
(* processar_upload (behind st.cache_data) and the Streamlit script that   *)
(* keeps the session expense list st.session_state.despesas.               *)
(*                                                                         *)
(* Text is a tuple of one-character strings, so that endswith and the      *)
(* numeric coercion are computed on the characters.  Amounts are carried   *)
(* in hundredths (12.50 is 1250); the inputs have at most two decimals.    *)
(***************************************************************************)
EXTENDS Integers, Sequences, FiniteSets, TLC

VARIABLES
    despesas,      \* st.session_state.despesas
    arquivo,       \* the uploader's value: a file handle or NoFile
    cache,         \* the entries of st.cache_data for processar_upload
    renda_mensal,  \* the income widget's value
    pc,            \* the position of the script run
    ev,            \* the interaction that started the script run
    ret,           \* what the last call of processar_upload did and returned
    df_despesas,   \* the DataFrame the dashboard builds from despesas
    total_gastos,  \* the sum of its Valor column
    calls,         \* 1 once the file was normalized, 0 before (function runs)
    first,         \* what the first call on the file returned (function runs)
    imports,       \* times the selected upload was appended: 0, 1, or 2 for more
    cleared        \* the list was cleared; no upload or valid entry since

vars == <<despesas, arquivo, cache, renda_mensal, pc, ev, ret,
          df_despesas, total_gastos, calls, first, imports, cleared>>

(***************************************************************************)
(* Bounds of the model.                                                    *)
(***************************************************************************)
\* most rows of an enumerated input table
MaxRows == 2
\* a script run starts on a user event only while the list is this short
MaxDespesas == 1

(***************************************************************************)
(* Cell values of a DataFrame: NaN, a text, or a number.                   *)
(***************************************************************************)
NaN == [k |-> "nan", s |-> <<>>, n |-> 0]
Str(s) == [k |-> "str", s |-> s, n |-> 0]
Num(n) == [k |-> "num", s |-> <<>>, n |-> n]

isna(v) == v.k = "nan"

Digits == {"0", "1", "2", "3", "4", "5", "6", "7", "8", "9"}

DigitVal(c) ==
    CASE c = "0" -> 0 [] c = "1" -> 1 [] c = "2" -> 2 [] c = "3" -> 3
      [] c = "4" -> 4 [] c = "5" -> 5 [] c = "6" -> 6 [] c = "7" -> 7
      [] c = "8" -> 8 [] c = "9" -> 9

AllDigits(s) == \A i \in 1..Len(s) : s[i] \in Digits

RECURSIVE ToInt(_)
ToInt(s) ==
    IF s = <<>> THEN 0
    ELSE ToInt(SubSeq(s, 1, Len(s) - 1)) * 10 + DigitVal(s[Len(s)])

DotsOf(s) == {i \in 1..Len(s) : s[i] = "."}

\* the text is a decimal literal: digits, with at most one point
IsDecimal(s) ==
    LET dots == DotsOf(s) IN
    /\ Cardinality(dots) <= 1
    /\ AllDigits(SelectSeq(s, LAMBDA c : c # "."))
    /\ Len(s) > Cardinality(dots)
    /\ \A d \in dots : Len(s) - d <= 2

\* the value of a decimal literal, in hundredths
DecimalValue(s) ==
    LET dots == DotsOf(s)
        d == IF dots = {} THEN Len(s) + 1 ELSE CHOOSE i \in dots : TRUE
        whole == SubSeq(s, 1, d - 1)
        frac == SubSeq(s, d + 1, Len(s))
        cents == IF Len(frac) = 0 THEN 0
                 ELSE IF Len(frac) = 1 THEN ToInt(frac) * 10
                 ELSE ToInt(frac)
    IN ToInt(whole) * 100 + cents

\* pd.to_numeric(..., errors="coerce") on one cell
to_numeric(v) ==
    CASE v.k = "num" -> v
      [] v.k = "nan" -> NaN
      [] v.k = "str" -> IF IsDecimal(v.s) THEN Num(DecimalValue(v.s)) ELSE NaN

(***************************************************************************)
(* DataFrames: a sequence of column labels and a sequence of rows, each    *)
(* row a sequence of cell values, one per column.  Labels may repeat.      *)
(***************************************************************************)
EmptyDataFrame == [columns |-> <<>>, rows |-> <<>>]

\* a function over 1..n as the tuple of its values
Tuple(f) == f \o <<>>

\* the one element of a singleton set; { e(x) : x \in {v} } computes v once
The(S) == CHOOSE x \in S : TRUE

empty(df) == Len(df.columns) = 0 \/ Len(df.rows) = 0

HasColumn(df, c) == \E i \in 1..Len(df.columns) : df.columns[i] = c

RenameLabel(c) ==
    CASE c = "Descrição" -> "Nome"
      [] c = "Valor" -> "Valor"
      [] c = "Tipo" -> "Categoria"
      [] OTHER -> c

rename(d) ==
    The({[df EXCEPT !.columns = Tuple([i \in 1..Len(df.columns) |-> RenameLabel(df.columns[i])])] :
         df \in {d}})

\* the column is added without its value
AssignCategoria_unset(d) ==
    The({[columns |-> Append(df.columns, "Categoria"),
          rows |-> Tuple([r \in 1..Len(df.rows) |-> Append(df.rows[r], NaN)])] :
         df \in {d}})

\* df["Categoria"] = "Outros": a new last column holding the sentinel
AssignCategoria(d) ==
    The({[columns |-> Append(df.columns, "Categoria"),
          rows |-> Tuple([r \in 1..Len(df.rows) |->
                     Append(df.rows[r], Str(<<"O", "u", "t", "r", "o", "s">>))])] :
         df \in {d}})

\* the positions of the columns labelled c, in file order
RECURSIVE PositionsFrom(_, _, _)
PositionsFrom(cols, c, i) ==
    IF i > Len(cols) THEN <<>>
    ELSE (IF cols[i] = c THEN <<i>> ELSE <<>>) \o PositionsFrom(cols, c, i + 1)

Positions(cols, c) == PositionsFrom(cols, c, 1)

\* df[keys]: every column carrying each key, key by key
RECURSIVE KeyPositions(_, _)
KeyPositions(cols, keys) ==
    IF keys = <<>> THEN <<>>
    ELSE Positions(cols, Head(keys)) \o KeyPositions(cols, Tail(keys))

Take(df, idx) ==
    [columns |-> Tuple([j \in 1..Len(idx) |-> df.columns[idx[j]]]),
     rows |-> Tuple([r \in 1..Len(df.rows) |->
                Tuple([j \in 1..Len(idx) |-> df.rows[r][idx[j]]])])]

\* df[["Nome", "Valor", "Categoria"]]
Project(d) ==
    The({The({Take(df, idx) : idx \in {KeyPositions(df.columns, <<"Nome", "Valor", "Categoria">>)}}) :
         df \in {d}})

\* df["Valor"] = pd.to_numeric(df["Valor"], errors="coerce")
CoerceValor(d) ==
    The({[df EXCEPT !.rows = Tuple([r \in 1..Len(df.rows) |->
            Tuple([j \in 1..Len(df.columns) |->
                IF df.columns[j] = "Valor" THEN to_numeric(df.rows[r][j])
                ELSE df.rows[r][j]])])] :
         df \in {d}})

RowComplete(df, row, subset) ==
    \A j \in 1..Len(df.columns) : df.columns[j] \in subset => ~isna(row[j])

\* the result of dropna is not kept
dropna_skipped(d, subset) == d

\* dropna() without its subset: a NaN in any column drops the row
dropna_any(d, subset) ==
    The({[df EXCEPT !.rows = SelectSeq(df.rows, LAMBDA row :
            \A j \in 1..Len(df.columns) : ~isna(row[j]))] :
         df \in {d}})

\* df.dropna(subset=[...]): the rows with no NaN in the subset's columns
dropna(d, subset) ==
    The({[df EXCEPT !.rows = SelectSeq(df.rows, LAMBDA row : RowComplete(df, row, subset))] :
         df \in {d}})

(***************************************************************************)
(* Uploaded files.  A handle has a name, a content and a read position;    *)
(* a content is a header row and data rows of raw text in one of the       *)
(* formats, or bytes that are no table at all ("bin").  An empty raw cell  *)
(* is the empty text.                                                      *)
(***************************************************************************)
NoFile == [name |-> <<>>, content |-> [fmt |-> "none", header |-> <<>>, rows |-> <<>>], pos |-> "none"]

Handle(name, content) == [name |-> name, content |-> content, pos |-> "start"]

\* str.endswith
endswith(s, suffix) ==
    /\ Len(s) >= Len(suffix)
    /\ SubSeq(s, Len(s) - Len(suffix) + 1, Len(s)) = suffix

\* a column read as numbers when every cell present in it is a number
NumericColumn(rows, j) ==
    /\ \E r \in 1..Len(rows) : rows[r][j] # <<>>
    /\ \A r \in 1..Len(rows) : rows[r][j] # <<>> => IsDecimal(rows[r][j])

\* the parsers' table: empty cells are NaN, numeric columns are numbers
ReadFrame(content) ==
    [columns |-> content.header,
     rows |-> Tuple([r \in 1..Len(content.rows) |->
        Tuple([j \in 1..Len(content.header) |->
            LET raw == content.rows[r][j] IN
            IF raw = <<>> THEN NaN
            ELSE IF NumericColumn(content.rows, j) THEN Num(DecimalValue(raw))
            ELSE Str(raw)])])]

\* pd.read_csv(uploaded_file): reads from the handle's position to its end
read_csv(h) ==
    IF h.pos = "start" /\ h.content.fmt = "csv" /\ h.content.header # <<>>
    THEN [kind |-> "return", df |-> ReadFrame(h.content), pos |-> "end"]
    ELSE [kind |-> "raise", df |-> EmptyDataFrame, pos |-> "end"]

\* pd.read_excel(uploaded_file): seeks to the start of the handle first
read_excel(h) ==
    IF h.content.fmt = "xlsx"
    THEN [kind |-> "return", df |-> ReadFrame(h.content), pos |-> "end"]
    ELSE [kind |-> "raise", df |-> EmptyDataFrame, pos |-> "end"]

\* the presence check with "and" for "or"
Normalize_and(df0) ==
    The({IF ~HasColumn(df1, "Nome") /\ ~HasColumn(df1, "Valor") THEN EmptyDataFrame
         ELSE dropna(CoerceValor(Project(
                  IF ~HasColumn(df1, "Categoria") THEN AssignCategoria(df1) ELSE df1)),
                  {"Nome", "Valor"}) :
         df1 \in {rename(df0)}})

\* lines 59-75, on the parsed table
Normalize(df0) ==
    The({IF ~HasColumn(df1, "Nome") \/ ~HasColumn(df1, "Valor") THEN EmptyDataFrame
         ELSE dropna(CoerceValor(Project(
                  IF ~HasColumn(df1, "Categoria") THEN AssignCategoria(df1) ELSE df1)),
                  {"Nome", "Valor"}) :
         df1 \in {rename(df0)}})

\* every other extension read as CSV
processar_upload_try_else_csv(h) ==
    IF \/ endswith(h.name, <<".", "x", "l", "s", "x">>)
       \/ endswith(h.name, <<".", "x", "l", "s">>)
    THEN The({[kind |-> r.kind, read |-> "excel", pos |-> r.pos,
               df |-> IF r.kind = "return" THEN Normalize(r.df) ELSE EmptyDataFrame] :
              r \in {read_excel(h)}})
    ELSE The({[kind |-> r.kind, read |-> "csv", pos |-> r.pos,
               df |-> IF r.kind = "return" THEN Normalize(r.df) ELSE EmptyDataFrame] :
              r \in {read_csv(h)}})

\* the try block of processar_upload
processar_upload_try(h) ==
    IF endswith(h.name, <<".", "c", "s", "v">>)
    THEN The({[kind |-> r.kind, read |-> "csv", pos |-> r.pos,
               df |-> IF r.kind = "return" THEN Normalize(r.df) ELSE EmptyDataFrame] :
              r \in {read_csv(h)}})
    ELSE IF \/ endswith(h.name, <<".", "x", "l", "s", "x">>)
            \/ endswith(h.name, <<".", "x", "l", "s">>)
    THEN The({[kind |-> r.kind, read |-> "excel", pos |-> r.pos,
               df |-> IF r.kind = "return" THEN Normalize(r.df) ELSE EmptyDataFrame] :
              r \in {read_excel(h)}})
    ELSE [kind |-> "return", read |-> "none", pos |-> h.pos, df |-> EmptyDataFrame]

\* the function without its except clause
processar_upload_fn_no_except(h) ==
    The({[kind |-> b.kind, read |-> b.read, pos |-> b.pos, df |-> b.df, caught |-> FALSE] :
         b \in {processar_upload_try(h)}})

\* the function with its except clause
processar_upload_fn(h) ==
    The({IF b.kind = "raise"
         THEN [kind |-> "return", read |-> b.read, pos |-> b.pos, df |-> EmptyDataFrame,
               caught |-> TRUE]
         ELSE [kind |-> "return", read |-> b.read, pos |-> b.pos, df |-> b.df,
               caught |-> FALSE] :
         b \in {processar_upload_try(h)}})

\* st.cache_data keys an uploaded file by its name, read position and bytes
CacheKey(h) == <<h.name, h.pos, h.content>>

\* the decorated function: a stored result is returned without running the body
processar_upload(h, c) ==
    IF \E e \in c : e.key = CacheKey(h)
    THEN LET e == CHOOSE e \in c : e.key = CacheKey(h) IN
         [kind |-> "return", read |-> "none", pos |-> h.pos, df |-> e.df,
          caught |-> FALSE, hit |-> TRUE, cache |-> c]
    ELSE The({[kind |-> r.kind, read |-> r.read, pos |-> r.pos, df |-> r.df,
               caught |-> r.caught, hit |-> FALSE,
               cache |-> IF r.kind = "return"
                         THEN c \cup {[key |-> CacheKey(h), df |-> r.df]} ELSE c] :
              r \in {processar_upload_fn(h)}})

NoCall == [kind |-> "none", read |-> "none", pos |-> "none", df |-> EmptyDataFrame,
           caught |-> FALSE, hit |-> FALSE, cache |-> {}]

(***************************************************************************)
(* The inputs the runs enumerate.                                          *)
(***************************************************************************)
Coffee == <<"C", "o", "f", "f", "e", "e">>
Rent == <<"R", "e", "n", "t">>
Gym == <<"G", "y", "m">>
Food == <<"F", "o", "o", "d">>
Housing == <<"H", "o", "u", "s", "i", "n", "g">>
Lazer == <<"L", "a", "z", "e", "r">>
Outros == <<"O", "u", "t", "r", "o", "s">>
Bad == <<"b", "a", "d">>
Thirty == <<"3", "0">>
TwelveFifty == <<"1", "2", ".", "5", "0">>
Note == <<"x">>

NameCsv == <<"a", ".", "c", "s", "v">>
NameXlsx == <<"b", ".", "x", "l", "s", "x">>
NameXls == <<"c", ".", "x", "l", "s">>
NameTxt == <<"d", "a", "t", "a", ".", "t", "x", "t">>
NameUpper == <<"E", ".", "C", "S", "V">>
NameNoDot == <<"c", "s", "v">>

Names == {NameCsv, NameXlsx, NameXls, NameTxt, NameUpper, NameNoDot}

\* the raw cells tried under each column label ("" is the empty cell)
CellsOf(label) ==
    CASE label \in {"Descrição", "Nome"} -> {<<>>, Gym}
      [] label = "Valor" -> {<<>>, Bad, Thirty, TwelveFifty}
      [] label = "Categoria" -> {<<>>, Food}
      [] label = "Tipo" -> {Housing}
      [] OTHER -> {Note}

AllCells == {<<>>, Gym, Bad, Thirty, TwelveFifty, Food, Housing, Note}

Headers ==
    { <<"Descrição", "Valor", "Tipo">>,
      <<"Nome", "Valor", "Categoria">>,
      <<"Nome", "Valor">>,
      <<"Valor", "Descrição">>,
      <<"Descrição">>,
      <<"Nome", "Categoria">>,
      <<"Valor", "Tipo">>,
      <<"Descrição", "Nome", "Valor">>,
      <<"Nome", "Valor", "Tipo", "Categoria">>,
      <<"Data", "Nome", "Valor">>,
      <<"Data">> }

RowsOf(header) ==
    {Tuple(row) : row \in {row \in [1..Len(header) -> AllCells] :
        \A j \in 1..Len(header) : row[j] \in CellsOf(header[j])}}


Content(fmt, header, rows) == [fmt |-> fmt, header |-> header, rows |-> rows]

\* bytes that are no table: a corrupt or empty upload
Garbage == Content("bin", <<>>, <<>>)

\* the three-row CSV of the scenario
ScenarioCsv ==
    Content("csv", <<"Nome", "Valor", "Categoria">>,
            << <<Coffee, TwelveFifty, Food>>, <<Rent, Bad, Housing>>, <<Gym, Thirty, <<>> >> >>)

\* every table under the extension that parses it
\* every table of up to MaxRows rows, as a CSV
MatchedFile(h) ==
    \E hd \in Headers : \E m \in 0..MaxRows : \E rows \in [1..m -> RowsOf(hd)] :
        h = Handle(NameCsv, Content("csv", hd, Tuple(rows)))

\* every name with the short contents, in its own format or another
MixedFile(h) ==
    \E nm \in Names :
        \/ h = Handle(nm, Garbage)
        \/ \E hd \in Headers : \E m \in 0..1 : \E rows \in [1..m -> RowsOf(hd)] :
              \E fmt \in {"csv", "xlsx"} : h = Handle(nm, Content(fmt, hd, Tuple(rows)))

\* another upload normalized in between
OtherFile == Handle(NameCsv, Content("csv", <<"Nome", "Valor">>, << <<Gym, Thirty>> >>))

Outcome(r) == [kind |-> r.kind, read |-> r.read, df |-> r.df, caught |-> r.caught, hit |-> r.hit]

(***************************************************************************)
(* Function runs: calls of processar_upload on one uploaded file.          *)
(***************************************************************************)
FnInit ==
    /\ \/ MatchedFile(arquivo)
       \/ MixedFile(arquivo)
       \/ arquivo = Handle(NameCsv, ScenarioCsv)
    /\ cache = {}
    /\ ret = Outcome(NoCall)
    /\ calls = 0
    /\ first = EmptyDataFrame
    /\ pc = "fn"
    /\ despesas = <<>>
    /\ renda_mensal = 5000
    /\ ev = [kind |-> "none", nome |-> <<>>, valor |-> 0, categoria |-> <<>>]
    /\ df_despesas = <<>>
    /\ total_gastos = 0
    /\ imports = 0
    /\ cleared = FALSE

\* one call on the handle as it stands
FnCall ==
    /\ pc = "fn"
    /\ \E r \in {processar_upload(arquivo, cache)} :
       /\ ret' = Outcome(r)
       /\ arquivo' = [arquivo EXCEPT !.pos = r.pos]
       /\ cache' = r.cache
       /\ first' = IF calls = 0 THEN r.df ELSE first
    /\ calls' = 1
    /\ UNCHANGED <<despesas, renda_mensal, pc, ev, df_despesas, total_gastos, imports, cleared>>

\* the same upload handed over as a new handle
FnReopen ==
    /\ pc = "fn"
    /\ calls > 0
    /\ arquivo.pos # "start"
    /\ arquivo' = [arquivo EXCEPT !.pos = "start"]
    /\ UNCHANGED <<despesas, cache, renda_mensal, pc, ev, ret, df_despesas, total_gastos,
                   calls, first, imports, cleared>>

\* a call on another upload in between
FnOtherCall ==
    /\ pc = "fn"
    /\ ~ \E e \in cache : e.key = CacheKey(OtherFile)
    /\ cache' = processar_upload(OtherFile, cache).cache
    /\ UNCHANGED <<despesas, arquivo, renda_mensal, pc, ev, ret, df_despesas, total_gastos,
                   calls, first, imports, cleared>>

FnNext == FnCall \/ FnReopen \/ FnOtherCall

SpecFn == FnInit /\ [][FnNext]_vars

(***************************************************************************)
(* The script.  Every interaction runs it from the top: the import block,  *)
(* the manual form, the dashboard, the export and clear buttons, the       *)
(* insights button.  pc is the block the run is about to execute.          *)
(***************************************************************************)
\* df.to_dict("records"): one record per row; of the columns that carry the
\* same label the last one gives the value
LastOf(df, row, c) == row[CHOOSE j \in 1..Len(df.columns) :
                            /\ df.columns[j] = c
                            /\ \A i \in (j + 1)..Len(df.columns) : df.columns[i] # c]

to_dict_records(d) ==
    The({Tuple([r \in 1..Len(df.rows) |->
            [Nome |-> LastOf(df, df.rows[r], "Nome"),
             Valor |-> LastOf(df, df.rows[r], "Valor"),
             Categoria |-> LastOf(df, df.rows[r], "Categoria")]]) :
         df \in {d}})

\* the list is replaced by the new items
extend_assign(list, items) == items

\* list.extend
extend(list, items) == list \o items

\* if nome and valor > 0
FormValid(nome, valor) == nome # <<>> /\ valor > 0

RECURSIVE SumValor(_)
SumValor(list) == IF list = <<>> THEN 0 ELSE Head(list).Valor.n + SumValor(Tail(list))

saldo == renda_mensal - total_gastos

NoEvent == [kind |-> "none", nome |-> <<>>, valor |-> 0, categoria |-> <<>>]
Event(kind) == [NoEvent EXCEPT !.kind = kind]

\* the uploads of the session
SessionFiles ==
    { Handle(NameCsv, Content("csv", <<"Descrição", "Valor", "Tipo">>,
                 << <<Gym, Thirty, Food>>, <<<<>>, Thirty, Food>>, <<Gym, Bad, <<>> >> >>)),
      Handle(NameXlsx, Content("xlsx", <<"Nome", "Valor">>, << <<Rent, TwelveFifty>> >>)),
      Handle(NameCsv, Content("csv", <<"Descrição", "Tipo">>, << <<Gym, Food>> >>)),
      Handle(NameCsv, Garbage) }

Incomes == {5000, 3000}
FormNames == {<<>>, Coffee}
FormValues == {0, 3000}
FormCategories == {Lazer}

\* the uploader hands the run the handle of the previous run or a new
\* handle on the same upload
HandlesFor(h) == IF h = NoFile THEN {h} ELSE {h, [h EXCEPT !.pos = "start"]}

Init ==
    /\ despesas = <<>>
    /\ arquivo = NoFile
    /\ cache = {}
    /\ renda_mensal = 5000
    /\ pc = "import"
    /\ ev = NoEvent
    /\ ret = Outcome(NoCall)
    /\ df_despesas = <<>>
    /\ total_gastos = 0
    /\ calls = 0
    /\ first = EmptyDataFrame
    /\ imports = 0
    /\ cleared = FALSE

Idle == pc = "idle" /\ Len(despesas) <= MaxDespesas

\* an interaction that leaves the uploader as it is starts a run
StartRun(e) ==
    /\ ev' = e
    /\ pc' = "import"
    /\ arquivo' \in HandlesFor(arquivo)

ChangeIncome ==
    /\ Idle
    /\ \E r \in Incomes \ {renda_mensal} : renda_mensal' = r
    /\ StartRun(Event("income"))
    /\ UNCHANGED <<despesas, cache, ret, df_despesas, total_gastos, calls, first, imports, cleared>>

Upload ==
    /\ Idle
    /\ \E f \in SessionFiles : arquivo' = f
    /\ ev' = Event("upload")
    /\ pc' = "import"
    /\ imports' = 0
    /\ cleared' = FALSE
    /\ UNCHANGED <<despesas, cache, renda_mensal, ret, df_despesas, total_gastos, calls, first>>

RemoveFile ==
    /\ Idle
    /\ arquivo # NoFile
    /\ arquivo' = NoFile
    /\ ev' = Event("remove")
    /\ pc' = "import"
    /\ imports' = 0
    /\ UNCHANGED <<despesas, cache, renda_mensal, ret, df_despesas, total_gastos, calls, first, cleared>>

SubmitForm ==
    /\ Idle
    /\ \E nome \in FormNames, valor \in FormValues, categoria \in FormCategories :
          StartRun([kind |-> "form", nome |-> nome, valor |-> valor, categoria |-> categoria])
    /\ UNCHANGED <<despesas, cache, renda_mensal, ret, df_despesas, total_gastos, calls, first,
                   imports, cleared>>

\* the export and clear buttons exist when the last run showed expenses
PressDownload ==
    /\ Idle
    /\ df_despesas # <<>>
    /\ StartRun(Event("download"))
    /\ UNCHANGED <<despesas, cache, renda_mensal, ret, df_despesas, total_gastos, calls, first,
                   imports, cleared>>

PressClear ==
    /\ pc = "idle"
    /\ df_despesas # <<>>
    /\ StartRun(Event("clear"))
    /\ UNCHANGED <<despesas, cache, renda_mensal, ret, df_despesas, total_gastos, calls, first,
                   imports, cleared>>

PressInsights ==
    /\ Idle
    /\ StartRun(Event("insights"))
    /\ UNCHANGED <<despesas, cache, renda_mensal, ret, df_despesas, total_gastos, calls, first,
                   imports, cleared>>

\* if arquivo: ... extend(df_importado.to_dict("records"))
ImportBlock ==
    /\ pc = "import"
    /\ IF arquivo = NoFile
       THEN /\ pc' = "form"
            /\ UNCHANGED <<despesas, arquivo, cache, ret, imports>>
       ELSE \E r \in {processar_upload(arquivo, cache)} :
            /\ ret' = Outcome(r)
            /\ arquivo' = [arquivo EXCEPT !.pos = r.pos]
            /\ cache' = r.cache
            /\ IF r.kind # "return"
               THEN /\ pc' = "idle"
                    /\ UNCHANGED <<despesas, imports>>
               ELSE /\ pc' = "form"
                    /\ IF ~empty(r.df)
                       THEN /\ despesas' = extend(despesas, to_dict_records(r.df))
                            /\ imports' = IF imports < 2 THEN imports + 1 ELSE imports
                       ELSE UNCHANGED <<despesas, imports>>
    /\ UNCHANGED <<renda_mensal, ev, df_despesas, total_gastos, calls, first, cleared>>

\* the form's submit handler
FormBlock ==
    /\ pc = "form"
    /\ pc' = "dashboard"
    /\ IF ev.kind = "form" /\ FormValid(ev.nome, ev.valor)
       THEN /\ despesas' = Append(despesas, [Nome |-> Str(ev.nome), Valor |-> Num(ev.valor),
                                             Categoria |-> Str(ev.categoria)])
            /\ cleared' = FALSE
       ELSE UNCHANGED <<despesas, cleared>>
    /\ UNCHANGED <<arquivo, cache, renda_mensal, ev, ret, df_despesas, total_gastos, calls,
                   first, imports>>

\* the metrics and the chart
Dashboard ==
    /\ pc = "dashboard"
    /\ df_despesas' = despesas
    /\ total_gastos' = SumValor(despesas)
    /\ pc' = IF despesas = <<>> THEN "insights" ELSE "export"
    /\ UNCHANGED <<despesas, arquivo, cache, renda_mensal, ev, ret, calls, first, imports, cleared>>

\* the download button and converter_para_excel(df_despesas)
Export ==
    /\ pc = "export"
    /\ pc' = "clear"
    /\ UNCHANGED <<despesas, arquivo, cache, renda_mensal, ev, ret, df_despesas, total_gastos,
                   calls, first, imports, cleared>>

\* the clear button: the list is emptied and st.rerun() starts a new run
Clear ==
    /\ pc = "clear"
    /\ IF ev.kind = "clear"
       THEN /\ despesas' = <<>>
            /\ cleared' = TRUE
            /\ StartRun(Event("rerun"))
       ELSE /\ pc' = "insights"
            /\ UNCHANGED <<despesas, cleared, ev, arquivo>>
    /\ UNCHANGED <<cache, renda_mensal, ret, df_despesas, total_gastos, calls, first, imports>>

\* the insights button and the request to the model
Insights ==
    /\ pc = "insights"
    /\ pc' = "idle"
    /\ ev' = NoEvent
    /\ UNCHANGED <<despesas, arquivo, cache, renda_mensal, ret, df_despesas, total_gastos,
                   calls, first, imports, cleared>>

Next ==
    \/ ChangeIncome
    \/ Upload
    \/ RemoveFile
    \/ SubmitForm
    \/ PressDownload
    \/ PressClear
    \/ PressInsights
    \/ ImportBlock
    \/ FormBlock
    \/ Dashboard
    \/ Export
    \/ Clear
    \/ Insights

Spec == Init /\ [][Next]_vars

(***************************************************************************)
(* Claims about processar_upload, checked on the function runs.            *)
(***************************************************************************)
NameLabels == {"Descrição", "Nome"}
AmountLabels == {"Valor"}
CategoryLabels == {"Tipo", "Categoria"}

HeaderHas(labels) == \E j \in 1..Len(arquivo.content.header) : arquivo.content.header[j] \in labels

Called == calls > 0

\* the last call read the file's content as a table
ParsedNow == Called /\ ret.read \in {"csv", "excel"} /\ ~ret.caught /\ ret.kind = "return"

Supported(name) ==
    \/ endswith(name, <<".", "c", "s", "v">>)
    \/ endswith(name, <<".", "x", "l", "s", "x">>)
    \/ endswith(name, <<".", "x", "l", "s">>)

\* C2: a call always returns, and returns an empty result whenever an
\* exception occurred inside it.
C2_NeverRaises == Called => ret.kind = "return" /\ (ret.caught => ret.df = EmptyDataFrame)

C2_Witness == Called /\ ret.caught /\ ret.read = "csv" /\ arquivo.content = Garbage

\* C3: a file whose name ends in none of .csv, .xlsx, .xls gives an empty
\* result whatever its content, with no parser run and nothing raised.
C3_OtherExtensionEmpty ==
    (Called /\ ~Supported(arquivo.name)) =>
        /\ ret.kind = "return"
        /\ ret.df = EmptyDataFrame
        /\ ret.read = "none"
        /\ ~ret.caught

C3_Witness ==
    /\ Called
    /\ arquivo.name = NameTxt
    /\ arquivo.content = Content("csv", <<"Nome", "Valor">>, << <<Gym, Thirty>> >>)

\* C4: a parsed table without a name column or without an amount column
\* after renaming gives an empty result, whatever else it holds.
C4_MissingColumnEmpty ==
    (ParsedNow /\ (~HeaderHas(NameLabels) \/ ~HeaderHas(AmountLabels))) =>
        ret.df = EmptyDataFrame

C4_Witness ==
    /\ ParsedNow
    /\ arquivo.content.header = <<"Nome", "Categoria">>
    /\ arquivo.content.rows = << <<Gym, Food>> >>

\* the category cells of the input, as the parsers read them
InputCategories ==
    {IF arquivo.content.rows[r][j] = <<>> THEN NaN ELSE Str(arquivo.content.rows[r][j]) :
        r \in 1..Len(arquivo.content.rows),
        j \in {j \in 1..Len(arquivo.content.header) : arquivo.content.header[j] \in CategoryLabels}}

OutputCategories ==
    {ret.df.rows[r][j] :
        r \in 1..Len(ret.df.rows),
        j \in {j \in 1..Len(ret.df.columns) : ret.df.columns[j] = "Categoria"}}

\* C6: without a category column every returned record carries the
\* sentinel "Outros"; with one, every returned category is a category the
\* input gave (a blank stays missing), never the substituted sentinel.
C6_SentinelCategory ==
    (ParsedNow /\ HeaderHas(NameLabels) /\ HeaderHas(AmountLabels)) =>
        /\ HasColumn(ret.df, "Categoria")
        /\ IF HeaderHas(CategoryLabels)
           THEN OutputCategories \subseteq InputCategories
           ELSE OutputCategories \subseteq {Str(Outros)}

C6_Witness ==
    /\ ParsedNow
    /\ arquivo.content.header = <<"Nome", "Valor">>
    /\ Len(ret.df.rows) = MaxRows

\* the last call parsed the scenario's CSV
ScenarioCall == ParsedNow /\ arquivo.content = ScenarioCsv

\* C7 as stated: the scenario's output holds ("Coffee", 12.50, "Food") and
\* ("Gym", 30.0, "Housing"), and no "Rent" row.
C7_AsStated ==
    ScenarioCall =>
        /\ \E r \in 1..Len(ret.df.rows) : ret.df.rows[r] = <<Str(Coffee), Num(1250), Str(Food)>>
        /\ \E r \in 1..Len(ret.df.rows) : ret.df.rows[r] = <<Str(Gym), Num(3000), Str(Housing)>>
        /\ \A r \in 1..Len(ret.df.rows) : ret.df.rows[r][1] # Str(Rent)

\* C7 amended: the scenario's output is ("Coffee", 12.50, "Food") then
\* ("Gym", 30.0, missing category); the "Rent" row is dropped.
C7_Scenario ==
    ScenarioCall =>
        ret.df = [columns |-> <<"Nome", "Valor", "Categoria">>,
                  rows |-> << <<Str(Coffee), Num(1250), Str(Food)>>,
                              <<Str(Gym), Num(3000), NaN>> >>]

C7_Witness == ScenarioCall /\ ~ret.hit

\* the rows the claim expects: those with every name present and a numeric
\* amount, as name, amount, category
ExpectedRow(hd, row) ==
    LET nm == CHOOSE j \in 1..Len(hd) : hd[j] \in NameLabels
        am == CHOOSE j \in 1..Len(hd) : hd[j] \in AmountLabels
        cats == {j \in 1..Len(hd) : hd[j] \in CategoryLabels}
    IN <<Str(row[nm]), Num(DecimalValue(row[am])),
         IF cats = {} THEN Str(Outros)
         ELSE LET c == row[CHOOSE j \in cats : TRUE] IN IF c = <<>> THEN NaN ELSE Str(c)>>

ValidRow(hd, row) ==
    /\ \E j \in 1..Len(hd) : hd[j] \in NameLabels /\ row[j] # <<>>
    /\ \E j \in 1..Len(hd) : hd[j] \in AmountLabels /\ IsDecimal(row[j])

RECURSIVE ExpectedRows(_, _)
ExpectedRows(hd, rows) ==
    IF rows = <<>> THEN <<>>
    ELSE (IF ValidRow(hd, Head(rows)) THEN <<ExpectedRow(hd, Head(rows))>> ELSE <<>>)
         \o ExpectedRows(hd, Tail(rows))

\* C5: a parsed table with a name and an amount column gives exactly its
\* rows with a name and a numeric amount, in order, each as the three
\* fields Nome, Valor, Categoria.
C5_ExactRows ==
    (ParsedNow /\ HeaderHas(NameLabels) /\ HeaderHas(AmountLabels)) =>
        /\ ret.df.columns = <<"Nome", "Valor", "Categoria">>
        /\ ret.df.rows = ExpectedRows(arquivo.content.header, arquivo.content.rows)

\* C8: every call on a file returns the records the first call on it
\* returned.
C8_SameResult == Called => ret.df.rows = first.rows

(***************************************************************************)
(* Claims about the session's expense list, checked on the script.         *)
(***************************************************************************)
\* C1: every record of the list has a non-empty name and a numeric amount.
C1_RecordsValid ==
    \A i \in 1..Len(despesas) :
        /\ ~isna(despesas[i].Nome)
        /\ despesas[i].Nome # Str(<<>>)
        /\ despesas[i].Valor.k = "num"

C1_Witness ==
    /\ pc = "idle"
    /\ arquivo.content.header = <<"Descrição", "Valor", "Tipo">>
    /\ imports > 0
    /\ \E i \in 1..Len(despesas) : despesas[i].Categoria = Str(Lazer)
    /\ \E i \in 1..Len(despesas) : despesas[i].Categoria = Str(Food)

ManualRecord == [Nome |-> Str(ev.nome), Valor |-> Num(ev.valor), Categoria |-> Str(ev.categoria)]

\* C9: the list changes only by an import appending its non-empty result,
\* by the form appending one valid entry, or by the clear button emptying
\* it; an append keeps what the list held, in place.
C9_OnlyThreeMutations ==
    [][despesas' # despesas =>
        \/ /\ pc = "import"
           /\ arquivo # NoFile
           /\ Len(ret'.df.rows) > 0
           /\ despesas' = despesas \o to_dict_records(ret'.df)
        \/ /\ pc = "form"
           /\ ev.kind = "form"
           /\ ev.nome # <<>>
           /\ ev.valor > 0
           /\ despesas' = despesas \o <<ManualRecord>>
        \/ /\ pc = "clear"
           /\ ev.kind = "clear"
           /\ despesas' = <<>>]_vars

\* an import has just appended to a list that already held a manual entry
C9_Witness ==
    /\ pc = "form"
    /\ imports > 0
    /\ ~empty(ret.df)
    /\ Len(despesas) > Len(ret.df.rows)
    /\ despesas[1].Categoria = Str(Lazer)
    /\ despesas[Len(despesas)].Categoria # Str(Lazer)

\* C10: an upload's records are appended once while it stays selected, and
\* after a clear the list is empty until a new upload or a valid entry.
C10_ImportedOnce == imports <= 1 /\ (cleared => despesas = <<>>)

====
